---- MODULE Spec2Model ----
(***************************************************************************)
(* A model of the CTEC scraper (src/main.js): the boundary extractor, the  *)
(* frame resolver, the guided form driver, the evaluation row picker, the  *)
(* report gate and the orchestrating main().                               *)
(*                                                                         *)
(* Text is a sequence of tokens.  A token is one whitespace character      *)
(* (" " or "\n"), one character, or one word; every marker literal of the  *)
(* source ("ESSAY QUESTIONS", "DEMOGRAPHICS", ...) is one token.  No       *)
(* marker literal of the source is a substring of another or overlaps one, *)
(* so a text splits into tokens in one way only and String.indexOf on the  *)
(* characters is indexOf on the tokens.  Positions are 0-based as in JS.   *)
(***************************************************************************)
EXTENDS Integers, Sequences, FiniteSets, TLC

VARIABLES
  pc,            \* where main() stands
  argv,          \* process.argv.slice(2).join(" "), before trim
  subject,       \* parsed subject
  number,        \* parsed number
  ctx,           \* the persistent browser context: "none", "open", "closed"
  opAfterClose,  \* a browser operation was issued on a closed context
  err,           \* the error main() threw, "none" if none
  exit,          \* "running", "resolved" (main resolved), "exit1" (process.exit(1))
  frames,        \* page.frames(): for each frame whether it holds CAREER_SEL
  frame,         \* the frame waitForFrameWithSelector returned, 0 before
  queried,       \* the frames queried by the last tick
  swallowed,     \* the frames whose query threw in the last tick
  scanned,       \* the number of frames page.frames() gave the last tick
  visible,       \* per select element: rendered and visible
  options,       \* per select element: its option elements in document order
  selected,      \* per select element: the value given to frame.selectOption
  chosen,        \* per select element: the label selectByLabelMatch returned
  lateOptions,   \* the options the site rendered after selectByLabelMatch threw
  courseLinks,   \* the "Get List of CTECs" links: the text of each one's row
  clickedCourse, \* index of the course link clicked, 0 if none
  evalLinks,     \* the "View Evaluation" links: each one's row
  realEvalLink,  \* index of realEvalLink, 0 for null
  clickedEval,   \* index of the evaluation link clicked, 0 if none
  realRowTerm,   \* realRowTerm
  realRowDesc,   \* realRowDesc
  popupArmed,    \* page.waitForEvent("popup") is pending
  popupOpened,   \* the click has opened a new window
  evalPage,      \* "none", "popup" or "page"
  page,          \* rendered text and address of evalPage
  sample,        \* text and address sampled by the gate's last poll
  gate,          \* "PENDING", "AUTH_INTERSTITIAL" or "LOADED"
  gateLog,       \* what the gate's last poll printed
  prompts,       \* login prompts printed during the present stay on the login screen
  pollAfterLoaded, \* a gate poll ran after waitForReport had returned
  fullText,      \* the text handed to the extractor
  essayChunk,    \* the extractor's result
  apiKey,        \* process.env.OPENAI_API_KEY: "unread" until the module loads,
                 \* then "unset" or "defined", then "set" or "empty" once
                 \* summarizeCTEC has tested it
  summary,       \* summarizeCTEC's result
  written        \* the payloads handed to writeJson

vars == <<pc, argv, subject, number, ctx, opAfterClose, err, exit, frames, frame,
          queried, swallowed, scanned, visible, options, selected, chosen, lateOptions,
          courseLinks,
          clickedCourse, evalLinks, realEvalLink, clickedEval, realRowTerm, realRowDesc,
          popupArmed, popupOpened, evalPage, page, sample, gate, gateLog, prompts,
          pollAfterLoaded,
          fullText, essayChunk, apiKey, summary, written>>

\* everything but pc, fullText, essayChunk
restVars == <<argv, subject, number, ctx, opAfterClose, err, exit, frames, frame,
              queried, swallowed, scanned, visible, options, selected, chosen, lateOptions,
          courseLinks,
              clickedCourse, evalLinks, realEvalLink, clickedEval, realRowTerm, realRowDesc,
              popupArmed, popupOpened, evalPage, page, sample, gate, gateLog, prompts,
          pollAfterLoaded,
              apiKey, summary, written>>

(* ------------------------------ bounds -------------------------------- *)

\* longest text handed to the boundary extractor in SpecExtract
MaxTextLen == 5

\* most frames the page holds
MaxFrames == 2

\* most option elements of the career and of the subject select element
MaxCareerOptions == 2

MaxSubjectOptions == 3

\* most "Get List of CTECs" links and most "View Evaluation" links rendered
MaxCourseRows == 2

MaxEvalRows == 2

\* most login prompts counted during one stay on the login screen
MaxPrompts == 2

\* longest command line handed to parseCourseArg in SpecParse
MaxArgLen == 5

(* --------------------------- JS string helpers ------------------------ *)

\* /\s/ : the whitespace tokens
WS == {" ", "\n"}

\* the smallest / largest element of a non-empty set of integers
MinOf(S) == CHOOSE x \in S : \A y \in S : x <= y

MaxOf(S) == CHOOSE x \in S : \A y \in S : x >= y

\* String.prototype.slice(from, to) for 0 <= from, to <= length
Slice(s, from, to) == IF to <= from THEN <<>> ELSE SubSeq(s, from + 1, to)

\* String.prototype.trim
Trim(s) ==
  LET keep == {i \in 1..Len(s) : s[i] \notin WS}
  IN  IF keep = {} THEN <<>> ELSE SubSeq(s, MinOf(keep), MaxOf(keep))

\* String.prototype.indexOf(marker, from): first position >= from, or -1
IndexOf(text, marker, from) ==
  LET hits == {i \in from..(Len(text) - 1) : text[i + 1] = marker}
  IN  IF hits = {} THEN -1 ELSE MinOf(hits)

\* String.prototype.includes
Includes(text, marker) == IndexOf(text, marker, 0) # -1

\* String.prototype.startsWith
StartsWith(s, prefix) ==
  /\ Len(prefix) <= Len(s)
  /\ SubSeq(s, 1, Len(prefix)) = prefix

\* marker.length: a marker literal is one token
MarkerLen(marker) == 1

\* String.prototype.toLowerCase on one token
LowerTok(t) ==
  CASE t \in {"Undergraduate", "UNDERGRADUATE"} -> "undergraduate"
    [] t \in {"Fall", "FALL"} -> "fall"
    [] t = "Wintr" -> "wintr"
    [] t = "Sprng" -> "sprng"
    [] t = "Summr" -> "summr"
    [] t = "NetID" -> "netid"
    [] t = "Sign in" -> "sign in"
    [] t = "Duo" -> "duo"
    [] t = "Two-Factor" -> "two-factor"
    [] t = "SSO" -> "sso"
    [] t = "Login" -> "login"
    [] t = "Shibboleth" -> "shibboleth"
    [] t = "ESSAY QUESTIONS" -> "essay questions"
    [] OTHER -> t

\* String.prototype.toLowerCase
ToLower(s) == [i \in 1..Len(s) |-> LowerTok(s[i])]

\* s.replace(/\s+/g, " "): every run of whitespace becomes one space
RECURSIVE Collapse(_)
Collapse(s) ==
  IF s = <<>> THEN <<>>
  ELSE LET r == Collapse(Tail(s))
       IN  IF Head(s) \in WS
             THEN IF r # <<>> /\ Head(r) = " " THEN r ELSE <<" ">> \o r
             ELSE <<Head(s)>> \o r

\* plausible bug: norm without the whitespace collapse and trim
norm_identity(s) == s

\* norm(s)
norm(s) == Trim(Collapse(s))

(* ------------------------- JS values: string | null ------------------- *)

\* null
Null == [null |-> TRUE, str |-> <<>>]

\* a string value
Str(s) == [null |-> FALSE, str |-> s]

\* JS truthiness of a string-or-null: null and "" are falsy
Truthy(v) == ~v.null /\ v.str # <<>>

\* a || b
JsOr(a, b) == IF Truthy(a) THEN a ELSE b

(* --------------------------- boundary extractor ----------------------- *)

START_MARKER == "ESSAY QUESTIONS"

END_DEMOGRAPHICS == "DEMOGRAPHICS"

END_CREATION == "Creation Date"

END_DOWNLOAD == "Download PDF"

\* the null passed as endMarker by the last chain (falsy in `endMarker ? .. : -1`)
NoEndMarker == "null"

\* plausible bug: an empty region reported as null (`return chunk.trim() || null`)
sectionBetween_emptyIsNull(text, startMarker, endMarker) ==
  LET start == IndexOf(text, startMarker, 0)
  IN  IF start = -1 THEN Null
      ELSE LET afterStart == start + MarkerLen(startMarker)
               end == IF endMarker # NoEndMarker
                        THEN IndexOf(text, endMarker, afterStart) ELSE -1
               chunk == IF end = -1 THEN Slice(text, afterStart, Len(text))
                                    ELSE Slice(text, afterStart, end)
           IN  IF Trim(chunk) = <<>> THEN Null ELSE Str(Trim(chunk))

\* plausible bug: the test `start === -1` left out
sectionBetween_noStartCheck(text, startMarker, endMarker) ==
  LET start == IndexOf(text, startMarker, 0)
      afterStart == start + MarkerLen(startMarker)
      end == IF endMarker # NoEndMarker
               THEN IndexOf(text, endMarker, afterStart) ELSE -1
      chunk == IF end = -1 THEN Slice(text, afterStart, Len(text))
                           ELSE Slice(text, afterStart, end)
  IN  Str(Trim(chunk))

\* sectionBetween(text, startMarker, endMarker)
sectionBetween(text, startMarker, endMarker) ==
  LET start == IndexOf(text, startMarker, 0)
  IN  IF start = -1 THEN Null
      ELSE LET afterStart == start + MarkerLen(startMarker)
               end == IF endMarker # NoEndMarker
                        THEN IndexOf(text, endMarker, afterStart) ELSE -1
               chunk == IF end = -1 THEN Slice(text, afterStart, Len(text))
                                    ELSE Slice(text, afterStart, end)
           IN  Str(Trim(chunk))

\* plausible bug: the last chain alone, the region never closed by a marker
extractEssayToDemographics_toEnd(text) ==
  sectionBetween(text, START_MARKER, NoEndMarker)

\* extractEssayToDemographics(fullText): the four chains joined by ||
extractEssayToDemographics(text) ==
  JsOr(JsOr(JsOr(sectionBetween(text, START_MARKER, END_DEMOGRAPHICS),
                 sectionBetween(text, START_MARKER, END_CREATION)),
            sectionBetween(text, START_MARKER, END_DOWNLOAD)),
       sectionBetween(text, START_MARKER, NoEndMarker))

(* --------------------------- input parsing ---------------------------- *)

\* [0-9]
Digits == {"0", "1", "2", "3", "4", "5", "6", "7", "8", "9"}

\* the tokens that match [A-Z_]+ as a whole
UpperWords == {"COMP_SCI", "MATH", "A", "_"}

\* the tokens that match [A-Z0-9]+ as a whole
UpperAlnum == {"MATH", "A"} \cup Digits

\* length of the longest prefix of s whose tokens are all in S
PrefixLen(s, S) ==
  LET bad == {i \in 1..Len(s) : s[i] \notin S}
  IN  IF bad = {} THEN Len(s) ELSE MinOf(bad) - 1

\* [0-9]+(?:-[A-Z0-9]+)?$ on the whole of s
IsNumberPart(s) ==
  LET d == PrefixLen(s, Digits)
  IN  /\ d >= 1
      /\ \/ d = Len(s)
         \/ /\ d + 2 <= Len(s)
            /\ s[d + 1] = "-"
            /\ \A i \in (d + 2)..Len(s) : s[i] \in UpperAlnum

\* plausible bug: the subject matched under the i flag
parseCourseArg_ignoreCase(joined) ==
  LET raw == Trim(joined)
      sLen == PrefixLen(raw, UpperWords \cup {"comp_sci"})
      afterSubject == SubSeq(raw, sLen + 1, Len(raw))
      wLen == PrefixLen(afterSubject, WS)
      numberPart == SubSeq(afterSubject, wLen + 1, Len(afterSubject))
      matched == sLen >= 1 /\ wLen >= 1 /\ IsNumberPart(numberPart)
  IN  IF raw = <<>> \/ ~matched
        THEN [threw |-> TRUE, subject |-> <<>>, number |-> <<>>]
        ELSE [threw |-> FALSE,
              subject |-> SubSeq(raw, 1, sLen),
              number |-> IF Includes(numberPart, "-") THEN numberPart
                         ELSE numberPart \o <<"-", "0">>]

\* plausible bug: the default suffix not appended
parseCourseArg_noDefault(joined) ==
  LET raw == Trim(joined)
      sLen == PrefixLen(raw, UpperWords)
      afterSubject == SubSeq(raw, sLen + 1, Len(raw))
      wLen == PrefixLen(afterSubject, WS)
      numberPart == SubSeq(afterSubject, wLen + 1, Len(afterSubject))
      matched == sLen >= 1 /\ wLen >= 1 /\ IsNumberPart(numberPart)
  IN  IF raw = <<>> \/ ~matched
        THEN [threw |-> TRUE, subject |-> <<>>, number |-> <<>>]
        ELSE [threw |-> FALSE, subject |-> SubSeq(raw, 1, sLen), number |-> numberPart]

\* parseCourseArg(argv): raw is argv.slice(2).join(" ")
parseCourseArg(joined) ==
  LET raw == Trim(joined)
      sLen == PrefixLen(raw, UpperWords)
      afterSubject == SubSeq(raw, sLen + 1, Len(raw))
      wLen == PrefixLen(afterSubject, WS)
      numberPart == SubSeq(afterSubject, wLen + 1, Len(afterSubject))
      matched == sLen >= 1 /\ wLen >= 1 /\ IsNumberPart(numberPart)
  IN  IF raw = <<>> \/ ~matched
        THEN [threw |-> TRUE, subject |-> <<>>, number |-> <<>>]
        ELSE [threw |-> FALSE,
              subject |-> SubSeq(raw, 1, sLen),
              number |-> IF Includes(numberPart, "-") THEN numberPart
                         ELSE numberPart \o <<"-", "0">>]

(* ------------------------ evaluation row picker ----------------------- *)

\* (Fall|Wintr|Sprng|Summr) under the i flag
Seasons == {"fall", "wintr", "sprng", "summr"}

\* plausible bug: the pattern without its anchors and digit count
looksLikeTerm_loose(termText) ==
  \E i \in 1..Len(termText) : LowerTok(termText[i]) \in Seasons

\* looksLikeTerm(termText): /^\d{4}\s+(Fall|Wintr|Sprng|Summr)$/i
looksLikeTerm(termText) ==
  LET n == Len(termText)
  IN  /\ n >= 6
      /\ PrefixLen(termText, Digits) = 4
      /\ PrefixLen(SubSeq(termText, 5, n), WS) = n - 5
      /\ LowerTok(termText[n]) \in Seasons

\* `if (!row) continue; if (cells.length < 2) continue;
\*  if (!looksLikeTerm(termText)) continue;` for one link
IsRealEvalRow(link) ==
  /\ link.hasRow
  /\ Len(link.cells) >= 2
  /\ looksLikeTerm(norm(link.cells[1]))

\* plausible bug: the last real row instead of the first (no break)
realEvalLinkOf_last(links) ==
  LET real == {i \in 1..Len(links) : IsRealEvalRow(links[i])}
  IN  IF real = {} THEN 0 ELSE MaxOf(real)

\* the loop over evalLinks: index of realEvalLink, 0 for null
realEvalLinkOf(links) ==
  LET real == {i \in 1..Len(links) : IsRealEvalRow(links[i])}
  IN  IF real = {} THEN 0 ELSE MinOf(real)

(* --------------------------- course row scan --------------------------- *)

\* plausible bug: a substring test instead of the prefix test
RowMatches_substring(rowText, num) ==
  \E k \in 0..Len(norm(rowText)) :
    StartsWith(SubSeq(norm(rowText), k + 1, Len(norm(rowText))), num \o <<":">>)

\* rowText.startsWith(number + ":") on the normalized row text
RowMatches(rowText, num) == StartsWith(norm(rowText), num \o <<":">>)

\* plausible bug: the last matching row instead of the first (no break)
targetLinkOf_last(links, num) ==
  LET hit == {i \in 1..Len(links) : RowMatches(links[i], num)}
  IN  IF hit = {} THEN 0 ELSE MaxOf(hit)

\* the loop over courseLinks: index of targetLink, 0 for null
targetLinkOf(links, num) ==
  LET hit == {i \in 1..Len(links) : RowMatches(links[i], num)}
  IN  IF hit = {} THEN 0 ELSE MinOf(hit)

(* --------------------------- guided form driver ------------------------ *)

\* (label) => label.toLowerCase() === "undergraduate"
careerMatcher == [kind |-> "career", subject |-> <<>>]

\* (label) => label.startsWith(subject + " ")
subjectMatcher(subj) == [kind |-> "subject", subject |-> subj]

\* matcherFn(label)
matcherFn(m, label) ==
  IF m.kind = "career"
    THEN ToLower(label) = <<"undergraduate">>
    ELSE StartsWith(label, m.subject \o <<" ">>)

\* the value of a selector on which selectOption was never called
NoValue == "(none)"

\* plausible bug: the last matching option instead of the first
selectByLabelMatch_last(opts, m) ==
  LET hit == {i \in 1..Len(opts) : matcherFn(m, norm(opts[i].label))}
  IN  IF hit = {}
        THEN [threw |-> TRUE, label |-> <<>>, value |-> NoValue]
        ELSE [threw |-> FALSE,
              label |-> norm(opts[MaxOf(hit)].label),
              value |-> opts[MaxOf(hit)].value]

\* selectByLabelMatch(frame, selectSelector, matcherFn) on the options the
\* $$ snapshot returned: the label returned and the value given to
\* frame.selectOption, or the throw
selectByLabelMatch(opts, m) ==
  LET hit == {i \in 1..Len(opts) : matcherFn(m, norm(opts[i].label))}
  IN  IF hit = {}
        THEN [threw |-> TRUE, label |-> <<>>, value |-> NoValue]
        ELSE [threw |-> FALSE,
              label |-> norm(opts[MinOf(hit)].label),
              value |-> opts[MinOf(hit)].value]

(* ------------------------------ report gate ---------------------------- *)

\* hasReport
hasReport(t) ==
  \/ Includes(t, "Student Report for")
  \/ Includes(t, "Responses Received")
  \/ Includes(t, "Course and Teacher Evaluations")
  \/ Includes(t, "ESSAY QUESTIONS")

\* looksLikeLogin, url being the address before toLowerCase
looksLikeLogin(t, url) ==
  LET tl == ToLower(t)
      u == ToLower(url)
  IN  \/ Includes(tl, "netid")
      \/ Includes(tl, "sign in")
      \/ Includes(tl, "duo")
      \/ Includes(tl, "two-factor")
      \/ Includes(u, "shibboleth")
      \/ Includes(u, "login")
      \/ Includes(u, "sso")


(* ------------------------------ the site ------------------------------- *)

\* the two select elements: CAREER_SEL and SUBJECT_SEL
Selects == {"career", "subject"}

\* the command lines tried
RawInputs ==
  { <<"COMP_SCI", " ", "2", "1", "2">>,
    <<"COMP_SCI", " ", "2", "1", "2", "-", "1">>,
    <<>>,
    <<"comp_sci", " ", "2", "1", "2">> }

\* the option elements the site may render in a select element
OptionKinds(sel) ==
  IF sel = "career"
    THEN { [label |-> <<>>, value |-> ""],
           [label |-> <<"Undergraduate">>, value |-> "UGRD"],
           [label |-> <<"\n", " ", "UNDERGRADUATE", " ">>, value |-> "UGRD2"],
           [label |-> <<"Undergraduate", " ", "Law">>, value |-> "ULAW"] }
    ELSE { [label |-> <<>>, value |-> ""],
           [label |-> <<"COMP_SCI", " ", "Computer Science">>, value |-> "CS"],
           [label |-> <<" ", "COMP_SCI", "\n", "Comp Sci">>, value |-> "CS2"],
           [label |-> <<"COMP_SCI">>, value |-> "CSX"] }

\* the most option elements a select element holds
MaxOptions(sel) == IF sel = "career" THEN MaxCareerOptions ELSE MaxSubjectOptions

\* the row texts of the "Get List of CTECs" links the site may render
\* ("" for a link outside any table row)
CourseRowKinds ==
  { <<"2", "1", "2", "-", "0", ":", " ", "Intro">>,
    <<"\n", "2", "1", "2", "-", "0", ":", " ", " ", "Intro", " ", "II">>,
    <<"2", "1", "2", "0", "-", "0", ":", " ", "Adv">>,
    <<"See", " ", "2", "1", "2", "-", "0", ":">>,
    <<"2", "1", "2", "-", "1", ":", " ", "Intro">>,
    <<>> }

\* the rows of the "View Evaluation" links the site may render: whether the
\* link lies in a table row, and the texts of the row's td cells
EvalRowKinds ==
  { [hasRow |-> TRUE,
     cells |-> << <<"2", "0", "2", "3", " ", "Fall">>, <<"(J. Smith)">> >>],
    [hasRow |-> TRUE,
     cells |-> << <<"\n", "2", "0", "2", "5", " ", "\n", "sprng", " ">>,
                  <<"(A.", " ", " ", "Lee)">> >>],
    [hasRow |-> TRUE, cells |-> << <<"Term">>, <<"Description">> >>],
    [hasRow |-> TRUE, cells |-> << <<"Page", " ", "2", " ", "of", " ", "3">>, <<>> >>],
    [hasRow |-> TRUE,
     cells |-> << <<"2", "0", "2", "4", "5", " ", "Fall">>, <<"(B. Jones)">> >>],
    [hasRow |-> TRUE, cells |-> << <<"2", "0", "2", "3", " ", "Wintr">> >>],
    [hasRow |-> FALSE, cells |-> <<>>] }

\* every non-empty list of at most n elements of S
ListsOf(S, n) == UNION {[1..k -> S] : k \in 1..n}

\* the texts the evaluation page may show
PageTexts ==
  { <<>>,
    <<"Loading">>,
    <<"NetID", " ", "Sign in">>,
    <<"essay questions">>,
    <<"Responses Received", " ", "Duo">>,
    <<"ESSAY QUESTIONS", " ", "DEMOGRAPHICS", " ", "Age: 20">>,
    <<"Student Report for", " ", "ESSAY QUESTIONS", " ", "Great class", " ",
      "DEMOGRAPHICS", " ", "Age: 20">>,
    <<"ESSAY QUESTIONS", "\n", "Long comment", "\n", "DEMOGRAPHICS">> }

\* the addresses the evaluation page may have
PageUrls == { <<"caesar">>, <<"SSO">> }

PageStates == [text : PageTexts, url : PageUrls]

\* no page, nothing sampled
NoPage == [text |-> <<>>, url |-> <<>>]

\* the number of characters of a token ("Long comment" stands for a comment
\* of 60 characters)
TokLen(t) ==
  CASE t = "Long comment" -> 60
    [] t \in {"Student Report for", "Responses Received"} -> 18
    [] t \in {"ESSAY QUESTIONS", "essay questions"} -> 15
    [] t = "DEMOGRAPHICS" -> 12
    [] t = "Great class" -> 11
    [] t \in {"Age: 20", "Loading", "Sign in"} -> 7
    [] t = "NetID" -> 5
    [] t = "Duo" -> 3
    [] OTHER -> 1

\* s.length
RECURSIVE CharLen(_)
CharLen(s) == IF s = <<>> THEN 0 ELSE TokLen(Head(s)) + CharLen(Tail(s))

\* essayChunk.trim().length < 50
MinEssayChars == 50

(* ------------------------------ main() -------------------------------- *)

inputVars == <<argv, subject, number, apiKey>>

runVars == <<ctx, err, exit>>

frameVars == <<frames, frame, queried, swallowed, scanned>>

formVars == <<visible, options, selected, chosen, lateOptions>>

rowVars == <<courseLinks, clickedCourse, evalLinks, realEvalLink, clickedEval, realRowTerm,
             realRowDesc>>

gateVars == <<popupArmed, popupOpened, evalPage, page, sample, gate, gateLog, prompts,
              pollAfterLoaded>>

outVars == <<fullText, essayChunk, summary, written>>

\* the state before main() runs, but for pc, argv and apiKey
Fresh ==
  /\ subject = <<>> /\ number = <<>>
  /\ ctx = "none" /\ opAfterClose = FALSE /\ err = "none" /\ exit = "running"
  /\ frames = <<>> /\ frame = 0 /\ queried = {} /\ swallowed = {} /\ scanned = 0
  /\ visible = [s \in Selects |-> FALSE]
  /\ options = [s \in Selects |-> <<>>]
  /\ selected = [s \in Selects |-> NoValue]
  /\ chosen = [s \in Selects |-> <<>>]
  /\ lateOptions = <<>>
  /\ courseLinks = <<>> /\ clickedCourse = 0
  /\ evalLinks = <<>> /\ realEvalLink = 0 /\ clickedEval = 0
  /\ realRowTerm = Null /\ realRowDesc = Null
  /\ popupArmed = FALSE /\ popupOpened = FALSE /\ evalPage = "none" /\ page = NoPage
  /\ sample = NoPage /\ gate = "PENDING" /\ gateLog = "none" /\ prompts = 0
  /\ pollAfterLoaded = FALSE
  /\ summary = "unset" /\ written = <<>>

\* the extractor alone: no run of main()
Idle == argv = <<>> /\ apiKey = "unread" /\ Fresh

Init ==
  /\ pc = "module"
  /\ argv \in RawInputs
  /\ apiKey = "unread"
  /\ fullText = <<>> /\ essayChunk = Null
  /\ Fresh

\* a call on the browser: it reaches a closed context if the context is closed
BrowserOp == opAfterClose' = (opAfterClose \/ ctx # "open")

\* plausible bug: no try/finally, a throw goes straight to main().catch
OnThrow_noFinally == "catch"

\* where a throw inside the try block goes: the finally block
OnThrow == "finally"

\* plausible bug: the error swallowed, main() resolving after the finally
Throw_swallowed(e) == err' = "none" /\ pc' = OnThrow /\ UNCHANGED <<ctx, exit>>

\* throw new Error(..) inside the try block
Throw(e) == err' = e /\ pc' = OnThrow /\ UNCHANGED <<ctx, exit>>

\* the top level of the module up to `const openai = new OpenAI({ apiKey:
\* process.env.OPENAI_API_KEY })`: the constructor throws when the key is
\* undefined, the exception is uncaught and node exits with code 1 before
\* main() is called
LoadModule ==
  /\ pc = "module"
  /\ apiKey' \in {"unset", "defined"}
  /\ IF apiKey' = "unset"
       THEN err' = "OpenAIError" /\ exit' = "exit1" /\ pc' = "end"
       ELSE pc' = "parse" /\ UNCHANGED <<err, exit>>
  /\ UNCHANGED <<argv, subject, number, ctx, opAfterClose, frameVars, formVars,
                 rowVars, gateVars, outVars>>

\* const { subject, number } = parseCourseArg(process.argv)
ParseArgs ==
  /\ pc = "parse"
  /\ LET r == parseCourseArg(argv)
     IN  IF r.threw
           THEN /\ err' = "InputError" /\ pc' = "catch"
                /\ UNCHANGED <<subject, number>>
           ELSE /\ subject' = r.subject /\ number' = r.number
                /\ pc' = "launch" /\ UNCHANGED err
  /\ UNCHANGED <<argv, apiKey, ctx, exit, opAfterClose, frameVars, formVars,
                 rowVars, gateVars, outVars>>

\* const context = await chromium.launchPersistentContext(..)
Launch ==
  /\ pc = "launch"
  /\ \/ ctx' = "open" /\ pc' = "goto" /\ UNCHANGED err
     \/ err' = "Error" /\ pc' = "catch" /\ UNCHANGED ctx
  /\ UNCHANGED <<inputVars, exit, opAfterClose, frameVars, formVars, rowVars,
                 gateVars, outVars>>

\* const page = ..; await page.goto(START_URL, ..)
Goto ==
  /\ pc = "goto"
  /\ BrowserOp
  /\ \/ /\ frames' \in {<<FALSE>>, <<TRUE>>}
        /\ pc' = "frame" /\ UNCHANGED <<ctx, err, exit>>
     \/ Throw("Error") /\ UNCHANGED frames
  /\ UNCHANGED <<inputVars, frame, queried, swallowed, scanned, formVars, rowVars,
                 gateVars, outVars>>

(* --- frame resolver --- *)

\* plausible bug: a throwing query aborts the scan (no try/catch in the loop)
waitForFrameWithSelector_noCatch(fs, throwing) ==
  LET reach == {i \in 1..Len(fs) : \A j \in 1..(i - 1) : j \notin throwing}
      hits == {i \in reach : fs[i] /\ i \notin throwing}
  IN  IF hits = {}
        THEN [frame |-> 0, queried |-> reach, swallowed |-> {}]
        ELSE [frame |-> MinOf(hits), queried |-> 1..MinOf(hits), swallowed |-> {}]

\* plausible bug: only the first frame of the page is queried
waitForFrameWithSelector_firstFrameOnly(fs, throwing) ==
  IF Len(fs) >= 1 /\ fs[1] /\ 1 \notin throwing
    THEN [frame |-> 1, queried |-> {1}, swallowed |-> {}]
    ELSE [frame |-> 0, queried |-> 1..Len(fs), swallowed |-> throwing]

\* one tick of waitForFrameWithSelector over fs = page.frames(): the frames
\* are queried in order, a throwing query is swallowed, the first frame
\* whose query finds the element is returned (0: none, sleep and tick again)
waitForFrameWithSelector(fs, throwing) ==
  LET hits == {i \in 1..Len(fs) : fs[i] /\ i \notin throwing}
  IN  IF hits = {}
        THEN [frame |-> 0, queried |-> 1..Len(fs), swallowed |-> throwing]
        ELSE [frame |-> MinOf(hits), queried |-> 1..MinOf(hits),
              swallowed |-> throwing \cap 1..MinOf(hits)]

\* the page attaches another frame
SiteAttachesFrame ==
  /\ pc = "frame"
  /\ Len(frames) < MaxFrames
  /\ \E b \in BOOLEAN : frames' = Append(frames, b)
  /\ UNCHANGED <<pc, inputVars, runVars, opAfterClose, frame, queried, swallowed,
                 scanned, formVars, rowVars, gateVars, outVars>>

\* a frame reloads: CAREER_SEL appears in it or leaves it
SiteReloadsFrame ==
  /\ pc = "frame"
  /\ \E i \in 1..Len(frames) : frames' = [frames EXCEPT ![i] = ~@]
  /\ UNCHANGED <<pc, inputVars, runVars, opAfterClose, frame, queried, swallowed,
                 scanned, formVars, rowVars, gateVars, outVars>>

\* one tick of waitForFrameWithSelector(page, CAREER_SEL) in which the
\* queries of the frames in `throwing` throw
FrameTickWith(throwing) ==
  /\ pc = "frame"
  /\ BrowserOp
  /\ LET r == waitForFrameWithSelector(frames, throwing)
     IN  /\ frame' = r.frame
         /\ queried' = r.queried
         /\ swallowed' = r.swallowed
         /\ scanned' = Len(frames)
         /\ pc' = IF r.frame = 0 THEN "frame" ELSE "career"
  /\ UNCHANGED <<inputVars, runVars, frames, formVars, rowVars, gateVars, outVars>>

\* const frame = await waitForFrameWithSelector(page, CAREER_SEL): one tick
FrameTick == \E throwing \in SUBSET (1..Len(frames)) : FrameTickWith(throwing)

(* --- guided form driver --- *)

\* the select element the driver is working on
ActiveSelect ==
  IF pc = "career" THEN {"career"}
  ELSE IF pc \in {"subjwait", "subject"} THEN {"subject"}
  ELSE {}

\* the site shows a select element
SiteShowsSelect ==
  /\ \E sel \in ActiveSelect :
       /\ ~visible[sel]
       /\ visible' = [visible EXCEPT ![sel] = TRUE]
  /\ UNCHANGED <<pc, inputVars, runVars, opAfterClose, frameVars, options, selected,
                 chosen, lateOptions, rowVars, gateVars, outVars>>

\* the site renders one more option element
SiteRendersOption ==
  /\ \E sel \in ActiveSelect :
       /\ Len(options[sel]) < MaxOptions(sel)
       /\ \E o \in OptionKinds(sel) :
            options' = [options EXCEPT ![sel] = Append(@, o)]
  /\ UNCHANGED <<pc, inputVars, runVars, opAfterClose, frameVars, visible, selected,
                 chosen, lateOptions, rowVars, gateVars, outVars>>

\* the select element selectByLabelMatch was last called on
LastSelect == IF selected["career"] = NoValue THEN "career" ELSE "subject"

\* the site goes on populating the select element after selectByLabelMatch
\* has taken its snapshot of the options and thrown, while the page is open
SiteRendersLateOption ==
  /\ err = "NoMatchingOption"
  /\ ctx = "open"
  /\ Len(options[LastSelect]) + Len(lateOptions) < MaxOptions(LastSelect)
  /\ \E o \in OptionKinds(LastSelect) : lateOptions' = Append(lateOptions, o)
  /\ UNCHANGED <<pc, inputVars, runVars, opAfterClose, frameVars, visible, options,
                 selected, chosen, rowVars, gateVars, outVars>>

\* await selectByLabelMatch(frame, sel, m), then what follows at `next`
SelectStep(sel, m, next) ==
  /\ visible[sel]
  /\ BrowserOp
  /\ LET r == selectByLabelMatch(options[sel], m)
     IN  IF r.threw
           THEN Throw("NoMatchingOption") /\ UNCHANGED <<selected, chosen>>
           ELSE /\ selected' = [selected EXCEPT ![sel] = r.value]
                /\ chosen' = [chosen EXCEPT ![sel] = r.label]
                /\ pc' = next /\ UNCHANGED <<ctx, err, exit>>
  /\ UNCHANGED <<inputVars, frame, visible, options, lateOptions, rowVars, gateVars,
                 outVars>>

\* const careerChosen = await selectByLabelMatch(frame, CAREER_SEL, ..); the
\* resolver has returned and the frames of the page are not scanned again
SelectCareer ==
  /\ pc = "career"
  /\ SelectStep("career", careerMatcher, "subjwait")
  /\ frames' = <<>> /\ queried' = {} /\ swallowed' = {} /\ scanned' = 0

\* plausible bug: the wait for the subject options left out
optionsPopulated_noWait(opts) == TRUE

\* s && s.options && s.options.length > 1
optionsPopulated(opts) == Len(opts) > 1

\* await frame.waitForFunction(.. s.options.length > 1 .., { timeout: 0 })
WaitSubjectOptions ==
  /\ pc = "subjwait"
  /\ BrowserOp
  /\ optionsPopulated(options["subject"])
  /\ pc' = "subject"
  /\ UNCHANGED <<inputVars, runVars, frameVars, formVars, rowVars, gateVars, outVars>>

\* const subjChosen = await selectByLabelMatch(frame, SUBJECT_SEL, ..)
SelectSubject ==
  /\ pc = "subject"
  /\ SelectStep("subject", subjectMatcher(subject), "search")
  /\ UNCHANGED <<frames, queried, swallowed, scanned>>

\* await frame.click('input[value="Search"]'): the form is submitted and
\* never read again
ClickSearch ==
  /\ pc = "search"
  /\ BrowserOp
  /\ pc' = "results"
  /\ visible' = [s \in Selects |-> FALSE]
  /\ options' = [s \in Selects |-> <<>>]
  /\ selected' = [s \in Selects |-> NoValue]
  /\ chosen' = [s \in Selects |-> <<>>]
  /\ UNCHANGED <<inputVars, runVars, frameVars, lateOptions, rowVars, gateVars, outVars>>

\* plausible bug: a wait that ends after some time with no link on the page
linkPresent_orTimedOut(links) == TRUE

\* what frame.waitForSelector('a:has-text(..)', { timeout: 0 }) waits for:
\* a link of that text on the page
linkPresent(links) == Len(links) >= 1

\* the site renders the search results
SiteRendersResults ==
  /\ pc = "results"
  /\ courseLinks = <<>>
  /\ courseLinks' \in ListsOf(CourseRowKinds, MaxCourseRows)
  /\ UNCHANGED <<pc, inputVars, runVars, opAfterClose, frameVars, formVars,
                 clickedCourse, evalLinks, realEvalLink, clickedEval, realRowTerm,
                 realRowDesc, gateVars, outVars>>

\* plausible bug: the missing course logged and main returning normally
CourseMissing_logAndReturn == [err |-> "none", pc |-> "finally"]

\* if (!targetLink) throw new Error(`Could not find course ${number}`)
CourseMissing == [err |-> "CourseNotFound", pc |-> OnThrow]

\* await frame.waitForSelector('a:has-text("Get List of CTECs")'), the scan
\* of the rows, and the throw or `await targetLink.click()`
FindCourseRow ==
  /\ pc = "results"
  /\ linkPresent(courseLinks)
  /\ BrowserOp
  /\ LET targetLink == targetLinkOf(courseLinks, number)
     IN  IF targetLink = 0
           THEN /\ err' = CourseMissing.err /\ pc' = CourseMissing.pc
                /\ UNCHANGED clickedCourse
           ELSE /\ clickedCourse' = targetLink
                /\ pc' = "evalwait" /\ UNCHANGED err
  /\ UNCHANGED <<inputVars, ctx, exit, frameVars, formVars, courseLinks, evalLinks,
                 realEvalLink, clickedEval, realRowTerm, realRowDesc, gateVars,
                 outVars>>

\* the site replaces the results by the list of evaluations: the course
\* links, the handle of the one clicked among them, are gone
SiteRendersEvalList ==
  /\ pc = "evalwait"
  /\ evalLinks = <<>>
  /\ evalLinks' \in ListsOf(EvalRowKinds, MaxEvalRows)
  /\ courseLinks' = <<>>
  /\ clickedCourse' = 0
  /\ UNCHANGED <<pc, inputVars, runVars, opAfterClose, frameVars, formVars,
                 realEvalLink, clickedEval, realRowTerm, realRowDesc,
                 gateVars, outVars>>

\* await frame.waitForSelector('a:has-text("View Evaluation")'), the scan of
\* the rows, and the throw
PickEvalRow ==
  /\ pc = "evalwait"
  /\ linkPresent(evalLinks)
  /\ BrowserOp
  /\ LET i == realEvalLinkOf(evalLinks)
     IN  IF i = 0
           THEN /\ Throw("NoEvaluationRow")
                /\ UNCHANGED <<realEvalLink, realRowTerm, realRowDesc>>
           ELSE /\ realEvalLink' = i
                /\ realRowTerm' = Str(norm(evalLinks[i].cells[1]))
                /\ realRowDesc' = Str(norm(evalLinks[i].cells[2]))
                /\ pc' = "arm" /\ UNCHANGED <<ctx, err, exit>>
  /\ UNCHANGED <<inputVars, frameVars, formVars, courseLinks, clickedCourse,
                 evalLinks, clickedEval, gateVars, outVars>>

(* --- popup-safe open and report gate --- *)

\* const popupPromise = page.waitForEvent("popup").catch(() => null)
ArmPopup ==
  /\ pc = "arm"
  /\ BrowserOp
  /\ popupArmed' = TRUE
  /\ pc' = "click"
  /\ UNCHANGED <<inputVars, runVars, frameVars, formVars, rowVars, popupOpened,
                 evalPage, page, sample, gate, gateLog, prompts, pollAfterLoaded,
                 outVars>>

\* await realEvalLink.click()
ClickEval ==
  /\ pc = "click"
  /\ BrowserOp
  /\ clickedEval' = realEvalLink
  /\ pc' = "popup"
  /\ UNCHANGED <<inputVars, runVars, frameVars, formVars, courseLinks, clickedCourse,
                 evalLinks, realEvalLink, realRowTerm, realRowDesc, gateVars, outVars>>

\* the window the click asked for opens: before the wait for the popup
\* event settles, or after it has timed out
SiteOpensPopup ==
  /\ pc \in {"popup", "load", "gate1", "gate2"}
  /\ ~popupOpened
  /\ popupOpened' = TRUE
  /\ UNCHANGED <<pc, inputVars, runVars, opAfterClose, frameVars, formVars, rowVars,
                 popupArmed, evalPage, page, sample, gate, gateLog, prompts,
                 pollAfterLoaded, outVars>>

\* let evalPage = await popupPromise; if (!evalPage) evalPage = page:
\* the popup the armed listener was told of, or the page when the wait
\* (no timeout given: the default one) ended with no popup yet
evalPageOf(opened) == IF opened THEN "popup" ELSE "page"

\* let evalPage = await popupPromise; if (!evalPage) evalPage = page
PopupOutcome ==
  /\ pc = "popup"
  /\ evalPage' = evalPageOf(popupOpened)
  /\ page' \in PageStates
  /\ popupArmed' = FALSE
  /\ pc' = "load"
  /\ UNCHANGED <<inputVars, runVars, opAfterClose, frameVars, formVars, rowVars,
                 popupOpened, sample, gate, gateLog, prompts, pollAfterLoaded,
                 outVars>>

\* await evalPage.waitForLoadState("domcontentloaded"); the frame, the
\* list of evaluations and the handles into it are not used again
LoadState ==
  /\ pc = "load"
  /\ BrowserOp
  /\ pc' = "gate1"
  /\ evalLinks' = <<>>
  /\ realEvalLink' = 0
  /\ clickedEval' = 0
  /\ frame' = 0
  /\ UNCHANGED <<inputVars, runVars, frames, queried, swallowed, scanned, formVars,
                 courseLinks, clickedCourse, realRowTerm, realRowDesc, gateVars,
                 outVars>>

\* the evaluation page shows something else: a redirect to the login, the
\* operator signing in, the report rendering
PageChanges ==
  /\ pc \in {"load", "gate1", "gate2", "read"}
  /\ page' \in PageStates \ {page}
  /\ UNCHANGED <<pc, inputVars, runVars, opAfterClose, frameVars, formVars, rowVars,
                 popupArmed, popupOpened, evalPage, sample, gate, gateLog, prompts,
                 pollAfterLoaded, outVars>>

\* plausible bug: the first wait of the gate ends on the login screen only
waitForEitherLoginOrReport_loginOnly(t, url) == looksLikeLogin(t, url)

\* the predicate of waitForEitherLoginOrReport: hasReport || looksLikeLogin
waitForEitherLoginOrReport(t, url) == hasReport(t) \/ looksLikeLogin(t, url)

\* plausible bug: the loop also returning on the login screen
waitForReport_returnsOnLogin(t, url) ==
  IF hasReport(t) \/ looksLikeLogin(t, url) THEN "return" ELSE "waiting"

\* plausible bug: the login test made before the report test
waitForReport_loginFirst(t, url) ==
  IF looksLikeLogin(t, url) THEN "login"
  ELSE IF hasReport(t) THEN "return"
  ELSE "waiting"

\* one iteration of waitForReport: return, or the message printed before
\* the sleep
waitForReport(t, url) ==
  IF hasReport(t) THEN "return"
  ELSE IF looksLikeLogin(t, url) THEN "login"
  ELSE "waiting"

\* the state of the gate after a poll of waitForReport
GateAfter(outcome) ==
  CASE outcome = "return" -> "LOADED"
    [] outcome = "login" -> "AUTH_INTERSTITIAL"
    [] OTHER -> "PENDING"

\* await waitForEitherLoginOrReport(evalPage): one evaluation of the
\* predicate in the page; nothing is printed
Gate1Poll ==
  /\ pc = "gate1"
  /\ BrowserOp
  /\ sample' = page
  /\ pollAfterLoaded' = (pollAfterLoaded \/ gate = "LOADED")
  /\ gate' = IF ~hasReport(page.text) /\ looksLikeLogin(page.text, page.url)
               THEN "AUTH_INTERSTITIAL" ELSE "PENDING"
  /\ pc' = IF waitForEitherLoginOrReport(page.text, page.url) THEN "gate2" ELSE "gate1"
  /\ UNCHANGED <<inputVars, runVars, frameVars, formVars, rowVars, popupArmed,
                 popupOpened, evalPage, page, gateLog, prompts, outVars>>

\* one iteration of waitForReport(evalPage) in which
\* page.innerText("body").catch(() => "") gives t
Gate2PollReads(t) ==
  /\ pc = "gate2"
  /\ BrowserOp
  /\ LET outcome == waitForReport(t, page.url)
     IN  /\ outcome = "login" => prompts < MaxPrompts
         /\ sample' = [text |-> t, url |-> page.url]
         /\ gate' = GateAfter(outcome)
         /\ gateLog' = IF outcome = "return" THEN gateLog ELSE outcome
         /\ prompts' = IF outcome = "login" THEN prompts + 1 ELSE 0
         /\ pc' = IF outcome = "return" THEN "read" ELSE "gate2"
  /\ pollAfterLoaded' = (pollAfterLoaded \/ gate = "LOADED")
  /\ UNCHANGED <<inputVars, runVars, frameVars, formVars, rowVars, popupArmed,
                 popupOpened, evalPage, page, outVars>>

\* await waitForReport(evalPage): one iteration, innerText() giving the text
\* of the page or rejecting
Gate2Poll == \E t \in {page.text, <<>>} : Gate2PollReads(t)

(* --- extraction, summary, record --- *)

\* const fullText = await evalPage.locator("body").innerText()
ReadText ==
  /\ pc = "read"
  /\ BrowserOp
  /\ fullText' = page.text
  /\ pc' = "extract"
  /\ UNCHANGED <<inputVars, runVars, frameVars, formVars, rowVars, gateVars,
                 essayChunk, summary, written>>

\* const essayChunk = extractEssayToDemographics(fullText), in main()
Extract ==
  /\ pc = "extract"
  /\ essayChunk' = extractEssayToDemographics(fullText)
  /\ pc' = "summarize"
  /\ UNCHANGED <<inputVars, runVars, opAfterClose, frameVars, formVars, rowVars,
                 gateVars, fullText, summary, written>>

\* whether summarizeCTEC returns null before calling the API
\* (chunk is `essayChunk || ""`, key is process.env.OPENAI_API_KEY)
summarySkipped(chunk, key) ==
  \/ key \in {"unset", "empty"}
  \/ chunk = <<>>
  \/ CharLen(Trim(chunk)) < MinEssayChars

\* const summary = await summarizeCTEC({ .., essayChunk: essayChunk || "" }):
\* skipped, or the API call settles: JSON parsed, JSON unparsable, rejected
Summarize ==
  /\ pc = "summarize"
  /\ apiKey' \in {"set", "empty"}
  /\ LET chunk == IF Truthy(essayChunk) THEN essayChunk.str ELSE <<>>
     IN  IF summarySkipped(chunk, apiKey')
           THEN summary' = "null" /\ pc' = "write" /\ UNCHANGED runVars
           ELSE \/ summary' = "json" /\ pc' = "write" /\ UNCHANGED runVars
                \/ summary' = "null" /\ pc' = "write" /\ UNCHANGED runVars
                \/ Throw("Error") /\ UNCHANGED summary
  /\ UNCHANGED <<argv, subject, number, opAfterClose, frameVars, formVars, rowVars,
                 gateVars, fullText, essayChunk, written>>

\* const payload = { scrapedAt, courseInput, evaluationRow, essayChunk,
\* summary } (scrapedAt, the clock, left out)
payload ==
  [courseInput |-> [subject |-> subject, number |-> number],
   evaluationRow |-> [term |-> realRowTerm, desc |-> realRowDesc],
   essayChunk |-> essayChunk,
   summary |-> summary]

\* const payload = { .. }; writeJson(OUT_DIR, .., payload)
WriteJson ==
  /\ pc = "write"
  /\ written' = Append(written, payload)
  /\ pc' = "finally"
  /\ UNCHANGED <<inputVars, runVars, opAfterClose, frameVars, formVars, rowVars,
                 gateVars, fullText, essayChunk, summary>>

\* finally { await context.close() }: then main() resolves, or the error
\* goes on to main().catch
Finally ==
  /\ pc = "finally"
  /\ ctx' = "closed"
  /\ IF err = "none" THEN pc' = "end" /\ exit' = "resolved"
                     ELSE pc' = "catch" /\ UNCHANGED exit
  /\ UNCHANGED <<inputVars, err, opAfterClose, frameVars, formVars, rowVars,
                 gateVars, outVars>>

\* plausible bug: the error printed and the process left to end with code 0
Catch_noExitCode ==
  /\ pc = "catch"
  /\ exit' = "resolved"
  /\ pc' = "end"
  /\ UNCHANGED <<inputVars, ctx, err, opAfterClose, frameVars, formVars, rowVars,
                 gateVars, outVars>>

\* main().catch((err) => { console.error(..); process.exit(1) })
Catch ==
  /\ pc = "catch"
  /\ exit' = "exit1"
  /\ pc' = "end"
  /\ UNCHANGED <<inputVars, ctx, err, opAfterClose, frameVars, formVars, rowVars,
                 gateVars, outVars>>

Next ==
  \/ LoadModule
  \/ ParseArgs \/ Launch \/ Goto
  \/ SiteAttachesFrame \/ SiteReloadsFrame \/ FrameTick
  \/ SiteShowsSelect \/ SiteRendersOption \/ SiteRendersLateOption
  \/ SelectCareer \/ WaitSubjectOptions \/ SelectSubject \/ ClickSearch
  \/ SiteRendersResults \/ FindCourseRow
  \/ SiteRendersEvalList \/ PickEvalRow
  \/ ArmPopup \/ ClickEval \/ SiteOpensPopup \/ PopupOutcome \/ LoadState
  \/ PageChanges
  \/ Gate1Poll \/ Gate2Poll
  \/ ReadText \/ Extract \/ Summarize \/ WriteJson
  \/ Finally \/ Catch

Spec == Init /\ [][Next]_vars

(* ---------------- the frame resolver under fair polling ---------------- *)

\* main() up to the return of waitForFrameWithSelector
NextFrames ==
  \/ LoadModule
  \/ ParseArgs \/ Launch \/ Goto
  \/ SiteAttachesFrame \/ SiteReloadsFrame \/ FrameTick
  \/ Finally \/ Catch

\* the loop of waitForFrameWithSelector ticks again after every sleep of
\* 250 ms, and a query throws only while its frame is being replaced: ticks
\* whose queries all succeed keep coming
SpecFrames == Init /\ [][NextFrames]_vars /\ WF_vars(FrameTickWith({}))

(* ----------------- the report gate under fair polling ------------------ *)

\* main() as it enters the gate: "COMP_SCI 212-1" was parsed, the row
\* "2023 Fall" was clicked, the popup opened and reached DOM-content-loaded;
\* the evaluation page shows any of its texts at any of its addresses
InitGate ==
  /\ pc = "gate1"
  /\ argv = <<"COMP_SCI", " ", "2", "1", "2", "-", "1">>
  /\ subject = <<"COMP_SCI">> /\ number = <<"2", "1", "2", "-", "1">>
  /\ apiKey = "defined"
  /\ ctx = "open" /\ opAfterClose = FALSE /\ err = "none" /\ exit = "running"
  /\ frames = <<>> /\ frame = 0 /\ queried = {} /\ swallowed = {} /\ scanned = 0
  /\ visible = [s \in Selects |-> FALSE]
  /\ options = [s \in Selects |-> <<>>]
  /\ selected = [s \in Selects |-> NoValue]
  /\ chosen = [s \in Selects |-> <<>>]
  /\ lateOptions = <<>>
  /\ courseLinks = <<>> /\ clickedCourse = 0
  /\ evalLinks = <<>> /\ realEvalLink = 0 /\ clickedEval = 0
  /\ realRowTerm = Str(<<"2", "0", "2", "3", " ", "Fall">>)
  /\ realRowDesc = Str(<<"(J. Smith)">>)
  /\ popupArmed = FALSE /\ popupOpened = TRUE /\ evalPage = "popup"
  /\ page \in PageStates
  /\ sample = NoPage /\ gate = "PENDING" /\ gateLog = "none" /\ prompts = 0
  /\ pollAfterLoaded = FALSE
  /\ fullText = <<>> /\ essayChunk = Null /\ summary = "unset" /\ written = <<>>

\* the two waits of the gate and the page they poll
NextGate == PageChanges \/ Gate1Poll \/ Gate2Poll

\* page.waitForFunction evaluates its predicate again on every animation
\* frame, and the loop of waitForReport reads the page again after every
\* sleep of one second; a read of a page that keeps its text gives that text
SpecGate ==
  InitGate /\ [][NextGate]_vars
  /\ WF_vars(Gate1Poll) /\ WF_vars(Gate2PollReads(page.text))


(* ------------------ main() against the site of the example ----------- *)

\* node main.js "COMP_SCI 212"
ScenarioInput == <<"COMP_SCI", " ", "2", "1", "2">>

\* the one matching course row the site returns
ScenarioCourseRows == << <<"2", "1", "2", "-", "0", ":", " ", "Intro">> >>

\* the one evaluation row the site returns
ScenarioEvalRows ==
  << [hasRow |-> TRUE,
      cells |-> << <<"2", "0", "2", "3", " ", "Fall">>, <<"(J. Smith)">> >>] >>

\* the text of the report
ScenarioReport ==
  <<"Student Report for", " ", "ESSAY QUESTIONS", " ", "Great class", " ",
    "DEMOGRAPHICS", " ", "Age: 20">>

\* what the evaluation page shows before the report
ScenarioTexts == { <<>>, <<"Loading">>, <<"NetID", " ", "Sign in">>, ScenarioReport }

InitScenario == Init /\ argv = ScenarioInput

\* main() where the site returns these rows and this report, which stays
\* once it is shown
NextScenario ==
  /\ Next
  /\ courseLinks' \in {<<>>, ScenarioCourseRows}
  /\ evalLinks' \in {<<>>, ScenarioEvalRows}
  /\ page'.text \in ScenarioTexts
  /\ page.text = ScenarioReport => page'.text = ScenarioReport

SpecScenario == InitScenario /\ [][NextScenario]_vars

(* ------------------ the extractor applied to every text --------------- *)

\* the tokens of the texts handed to the extractor
ExtractAlphabet ==
  {START_MARKER, END_DEMOGRAPHICS, END_CREATION, END_DOWNLOAD, " ", "w"}

\* every text of at most MaxTextLen tokens
ExtractTexts == UNION {[1..n -> ExtractAlphabet] : n \in 0..MaxTextLen}

InitExtract ==
  /\ pc = "x_call"
  /\ fullText \in ExtractTexts
  /\ essayChunk = Null
  /\ Idle

\* const essayChunk = extractEssayToDemographics(fullText)
ExtractCall ==
  /\ pc = "x_call"
  /\ essayChunk' = extractEssayToDemographics(fullText)
  /\ pc' = "x_done"
  /\ UNCHANGED <<fullText, restVars>>

\* extractEssayToDemographics(essayChunk): the extractor on its own result
ExtractAgain ==
  /\ pc = "x_done"
  /\ ~essayChunk.null
  /\ fullText' = essayChunk.str
  /\ essayChunk' = extractEssayToDemographics(fullText')
  /\ pc' = "x_again"
  /\ UNCHANGED restVars

NextExtract == ExtractCall \/ ExtractAgain

SpecExtract == InitExtract /\ [][NextExtract]_vars

(* ------------------ parseCourseArg applied to every input ------------- *)

\* the tokens of the command lines handed to parseCourseArg
ParseAlphabet == {"COMP_SCI", "comp_sci", " ", "2", "1", "-", "A"}

\* every command line of at most MaxArgLen tokens
ParseInputs == UNION {[1..n -> ParseAlphabet] : n \in 0..MaxArgLen}

InitParse ==
  /\ pc = "p_call"
  /\ argv \in ParseInputs
  /\ apiKey = "unread"
  /\ fullText = <<>> /\ essayChunk = Null
  /\ Fresh

\* what a call of parseCourseArg on `joined` leaves: the pair, or the throw
ParseInto(joined, done) ==
  LET r == parseCourseArg(joined)
  IN  IF r.threw
        THEN /\ err' = "InputError" /\ pc' = "p_threw"
             /\ UNCHANGED <<subject, number>>
        ELSE /\ subject' = r.subject /\ number' = r.number
             /\ pc' = done /\ UNCHANGED err

\* parseCourseArg(process.argv)
ParseCall ==
  /\ pc = "p_call"
  /\ ParseInto(argv, "p_done")
  /\ UNCHANGED <<argv, apiKey, ctx, exit, opAfterClose, frameVars, formVars,
                 rowVars, gateVars, outVars>>

\* parseCourseArg on the pair it returned, joined as `${subject} ${number}`
ParseAgain ==
  /\ pc = "p_done"
  /\ argv' = subject \o <<" ">> \o number
  /\ ParseInto(argv', "p_again")
  /\ UNCHANGED <<apiKey, ctx, exit, opAfterClose, frameVars, formVars,
                 rowVars, gateVars, outVars>>

NextParse == ParseCall \/ ParseAgain

SpecParse == InitParse /\ [][NextParse]_vars

(* ===================== claims on the boundary extractor =============== *)

\* position just after the first start marker (the start marker occurs)
AfterStartOf(text) == IndexOf(text, START_MARKER, 0) + MarkerLen(START_MARKER)

\* whether `marker` occurs at or after the end of the first start marker
OccursAfterStart(text, marker) == IndexOf(text, marker, AfterStartOf(text)) # -1

\* the trimmed text from the end of the first start marker up to the first
\* `marker` after it
RegionUpTo(text, marker) ==
  Trim(Slice(text, AfterStartOf(text), IndexOf(text, marker, AfterStartOf(text))))

\* the trimmed text from the end of the first start marker to the end
RegionToEnd(text) == Trim(Slice(text, AfterStartOf(text), Len(text)))

\* C2 (as claimed): whenever "ESSAY QUESTIONS" occurs and "DEMOGRAPHICS"
\* occurs after it, the result is exactly the trimmed text between the two,
\* for every payload, the empty and the whitespace-only payload included.
C2_ExactPayloadForEveryPayload ==
  (/\ pc = "x_done"
   /\ Includes(fullText, START_MARKER)
   /\ OccursAfterStart(fullText, END_DEMOGRAPHICS))
  => essayChunk = Str(RegionUpTo(fullText, END_DEMOGRAPHICS))

\* C3: the result is null exactly when "ESSAY QUESTIONS" occurs nowhere; when
\* it occurs the result is a string (the empty string included), and when no
\* closing marker follows the start marker the result is the rest of the
\* text, trimmed.
C3_NullIffStartAbsent ==
  pc = "x_done" =>
    /\ essayChunk.null <=> ~Includes(fullText, START_MARKER)
    /\ (/\ Includes(fullText, START_MARKER)
        /\ ~OccursAfterStart(fullText, END_DEMOGRAPHICS)
        /\ ~OccursAfterStart(fullText, END_CREATION)
        /\ ~OccursAfterStart(fullText, END_DOWNLOAD))
       => essayChunk = Str(RegionToEnd(fullText))

\* C3 witness: the start marker occurs, nothing but whitespace follows it, and
\* the result is the empty string, not null
C3_Witness_EmptyStringResult ==
  /\ pc = "x_done"
  /\ Includes(fullText, START_MARKER)
  /\ Len(fullText) > AfterStartOf(fullText)
  /\ essayChunk = Str(<<>>)

\* C4 (as claimed): with no "DEMOGRAPHICS" after the start marker the region
\* ends at the first "Creation Date" after it, else at the first
\* "Download PDF" after it, else at the end of the text.
C4_FallbackPriorityChain ==
  (/\ pc = "x_done"
   /\ Includes(fullText, START_MARKER)
   /\ ~OccursAfterStart(fullText, END_DEMOGRAPHICS))
  => essayChunk =
       Str(IF OccursAfterStart(fullText, END_CREATION)
             THEN RegionUpTo(fullText, END_CREATION)
           ELSE IF OccursAfterStart(fullText, END_DOWNLOAD)
             THEN RegionUpTo(fullText, END_DOWNLOAD)
           ELSE RegionToEnd(fullText))

\* the result is the extractor's value on the text, whichever call made it,
\* and a call leaves the text and everything else as they were
ExtractorIsPure ==
  /\ [](pc \in {"x_done", "x_again"} => essayChunk = extractEssayToDemographics(fullText))
  /\ [][(pc = "x_call") => (fullText' = fullText /\ restVars' = restVars)]_vars
  /\ [][(pc = "x_done") => (fullText' = essayChunk.str /\ restVars' = restVars)]_vars

PastGate == pc \in {"read", "extract", "summarize", "write"}

\* main() has left the try block or never entered it
Unwinding == pc \in {"finally", "catch", "end"}

\* C1: the report gate returns only on a poll of waitForReport whose sampled
\* text holds a report-presence marker; it is never passed while the last
\* sample is pending or an interstitial; while it polls nothing is thrown and
\* it is left only for the read that follows it; no poll follows LOADED.
C1_GateReturnsOnlyOnReport ==
  /\ [](/\ gate = "LOADED" => hasReport(sample.text)
        /\ (PastGate \/ written # <<>>) => gate = "LOADED"
        /\ pc \in {"gate1", "gate2"} => (gate # "LOADED" /\ err = "none")
        /\ ~pollAfterLoaded)
  /\ [][(pc \in {"gate1", "gate2"}) => (pc' \in {"gate1", "gate2", "read"})]_vars

\* C1 witness: the gate saw the login screen first and returned later on a
\* sample with a report marker
C1_Witness_LoadedAfterLogin ==
  /\ pc = "read"
  /\ gate = "LOADED"
  /\ gateLog = "login"
  /\ hasReport(sample.text)

\* C5: once the context was launched it is closed before the run ends, on
\* success and after every throw, and no browser call follows the close.
C5_ContextClosedOnEveryPath ==
  /\ (ctx # "none" /\ (pc \in {"catch", "end"} \/ exit # "running")) => ctx = "closed"
  /\ ~opAfterClose

\* C5 witness: a run that failed with NoEvaluationRow has ended with the
\* context closed
C5_Witness_ClosedAfterFailure ==
  /\ pc = "end"
  /\ err = "NoEvaluationRow"
  /\ ctx = "closed"

\* the rows of the evaluation links whose first cell matches the term
\* pattern, among the links that lie in a row with at least `least` td cells
TermRows(least) ==
  {i \in 1..Len(evalLinks) :
     /\ evalLinks[i].hasRow
     /\ Len(evalLinks[i].cells) >= least
     /\ Len(evalLinks[i].cells) >= 1
     /\ looksLikeTerm(norm(evalLinks[i].cells[1]))}

\* the picker has run on the evaluation links on the page
Picked == Len(evalLinks) >= 1 /\ pc # "evalwait"

\* the outcome of the picker, the rows it may pick being `rows`
PickerOutcome(rows) ==
  IF rows = {}
    THEN err = "NoEvaluationRow" /\ realEvalLink = 0 /\ clickedEval = 0
    ELSE /\ err # "NoEvaluationRow"
         /\ realEvalLink = MinOf(rows)
         /\ clickedEval \in {0, MinOf(rows)}

\* C6 (as claimed): the picker returns the first candidate row whose
\* normalized first cell matches the term pattern, and fails with
\* NoEvaluationRow, clicking nothing, exactly when no candidate row's first
\* cell matches.
C6_FirstRowWithMatchingFirstCell == Picked => PickerOutcome(TermRows(1))

\* C6 (amended): the same, among the candidate rows that have at least two
\* td cells; a row with a single cell is skipped whatever its first cell.
C6_FirstTwoCellRowWithMatchingFirstCell == Picked => PickerOutcome(TermRows(2))

\* C6 witness: the first link's row has one cell, which matches the term
\* pattern, and the second link's row was picked and clicked
C6_Witness_SingleCellRowSkipped ==
  /\ Len(evalLinks) = 2
  /\ 1 \in TermRows(1)
  /\ realEvalLink = 2
  /\ clickedEval = 2

\* the course rows whose normalized text starts with number + ":"
PrefixRows ==
  {i \in 1..Len(courseLinks) :
     LET t == norm(courseLinks[i])
         p == number \o <<":">>
     IN  Len(t) >= Len(p) /\ \A k \in 1..Len(p) : t[k] = p[k]}

\* C7: the course row clicked is the first row whose normalized text starts
\* with number + ":"; a row that only contains the number, or starts with a
\* longer number, is never clicked.
C7_FirstRowWithNumberColonPrefix ==
  (clickedCourse # 0 /\ courseLinks # <<>>) =>
    /\ PrefixRows # {}
    /\ clickedCourse = MinOf(PrefixRows)
    /\ courseLinks[clickedCourse] \notin
         { <<"See", " ", "2", "1", "2", "-", "0", ":">>,
           <<"2", "1", "2", "0", "-", "0", ":", " ", "Adv">> }

\* C7 witness: the first row only contains the number, the second row starts
\* with it and was clicked
C7_Witness_ContainingRowSkipped ==
  /\ Len(courseLinks) = 2
  /\ courseLinks[1] = <<"See", " ", "2", "1", "2", "-", "0", ":">>
  /\ clickedCourse = 2

\* C8: when result rows are present and none matches, the run ends with
\* CourseNotFound as a failure (exit code 1, not a normal completion), the
\* scan is not run again and no row is clicked.
C8_CourseNotFoundIsFatal ==
  /\ (Len(courseLinks) >= 1 /\ PrefixRows = {} /\ pc # "results") =>
       /\ err = "CourseNotFound"
       /\ Unwinding
  /\ err = "CourseNotFound" =>
       /\ Unwinding
       /\ clickedCourse = 0 /\ clickedEval = 0
       /\ exit # "resolved"
       /\ pc = "end" => exit = "exit1"

\* C8 witness: a run ended with CourseNotFound and exit code 1
C8_Witness_ExitOneOnMissingCourse ==
  /\ pc = "end"
  /\ err = "CourseNotFound"
  /\ exit = "exit1"
  /\ Len(courseLinks) = 2

\* the matcher the driver uses on a select element
MatcherOf(sel) == IF sel = "career" THEN careerMatcher ELSE subjectMatcher(subject)

\* the options of a select element whose normalized label satisfies its matcher
MatchingOptions(sel) ==
  {i \in 1..Len(options[sel]) : matcherFn(MatcherOf(sel), norm(options[sel][i].label))}

\* C9: selectByLabelMatch selects the first option whose normalized label
\* satisfies the predicate and returns that label; when no option does it
\* throws NoMatchingOption, has selected nothing, and is not called again.
C9_FirstMatchingOptionOrThrow ==
  /\ \A sel \in Selects :
       selected[sel] # NoValue =>
         /\ MatchingOptions(sel) # {}
         /\ selected[sel] = options[sel][MinOf(MatchingOptions(sel))].value
         /\ chosen[sel] = norm(options[sel][MinOf(MatchingOptions(sel))].label)
  /\ err = "NoMatchingOption" =>
       /\ MatchingOptions(LastSelect) = {}
       /\ selected[LastSelect] = NoValue /\ chosen[LastSelect] = <<>>
       /\ Unwinding
  /\ pc \in {"subjwait", "subject"} => selected["career"] # NoValue
  /\ pc = "search" => selected["subject"] # NoValue

\* C9 witness: two options match, the first of them (its label needing
\* normalization) was selected
C9_Witness_FirstOfTwoMatches ==
  /\ pc = "search"
  /\ Cardinality(MatchingOptions("subject")) = 2
  /\ selected["subject"] = "CS2"
  /\ chosen["subject"] = <<"COMP_SCI", " ", "Comp Sci">>

\* C10: waitForFrameWithSelector never throws; a tick that does not return
\* has queried every frame page.frames() gave it, the queries that threw
\* included; the frame returned is one whose query found the element on
\* that tick, after the frames before it.
C10_FrameResolverReturnsOnlyAFrameWithSelector ==
  /\ pc = "frame" => (err = "none" /\ frame = 0 /\ queried = 1..scanned)
  /\ pc = "career" =>
       /\ err = "none"
       /\ frame \in 1..Len(frames)
       /\ frames[frame]
       /\ queried = 1..frame
       /\ frame \notin swallowed

\* C10 witness: the query of the first frame threw, the scan went on and the
\* second frame was returned
C10_Witness_ThrowSwallowedSecondFrameReturned ==
  /\ pc = "career"
  /\ frame = 2
  /\ swallowed = {1}
  /\ frames[1]

\* the report was read after the gate had returned
ReportRead == gate = "LOADED" /\ pc # "read"

\* the region of the report: the trimmed text from the end of the first start
\* marker up to the closing marker that follows it, the first of
\* "DEMOGRAPHICS", "Creation Date", "Download PDF" that does, else to the end
RegionOf(text) ==
  IF OccursAfterStart(text, END_DEMOGRAPHICS) THEN RegionUpTo(text, END_DEMOGRAPHICS)
  ELSE IF OccursAfterStart(text, END_CREATION) THEN RegionUpTo(text, END_CREATION)
  ELSE IF OccursAfterStart(text, END_DOWNLOAD) THEN RegionUpTo(text, END_DOWNLOAD)
  ELSE RegionToEnd(text)

\* when the report read holds no "ESSAY QUESTIONS" nothing is thrown, and
\* the run ends resolved with one record whose essayChunk is null
ExtractionEmptyNonFatal ==
  (ReportRead /\ ~Includes(fullText, START_MARKER)) =>
    /\ err = "none"
    /\ pc = "end" =>
         (exit = "resolved" /\ Len(written) = 1 /\ written[1].essayChunk = Null)

\* the essayChunk written is null exactly when the report read holds no
\* "ESSAY QUESTIONS"
WrittenNullIffStartAbsent ==
  written # <<>> => (written[1].essayChunk = Null <=> ~Includes(fullText, START_MARKER))

\* C11 (as claimed): a report with no "ESSAY QUESTIONS" is not fatal, the run
\* resolves and writes a record whose essayChunk is null; the essayChunk
\* written is null exactly when the start marker is absent from the report;
\* an empty region is written as the empty string.
C11_ExtractionEmptyIsNonFatal ==
  /\ ExtractionEmptyNonFatal
  /\ WrittenNullIffStartAbsent
  /\ (written # <<>> /\ Includes(fullText, START_MARKER) /\ RegionOf(fullText) = <<>>)
       => written[1].essayChunk = Str(<<>>)

\* C12: at most one record is handed to writeJson; it is written only after
\* the gate returned and the extractor ran, and it is the payload built from
\* their results; what was written never changes; after any throw no record
\* is written, and a run that ends without a record ends with exit code 1
\* and its error kind kept.
C12_OneRecordAfterGateAndExtraction ==
  /\ [](/\ Len(written) <= 1
        /\ written # <<>> =>
             /\ gate = "LOADED" /\ Unwinding
             /\ written[1] = payload
             /\ written[1].essayChunk = extractEssayToDemographics(fullText)
        /\ err # "none" => written = <<>>
        /\ (pc = "end" /\ written = <<>>) => (exit = "exit1" /\ err # "none")
        /\ (pc = "end" /\ err # "none") => exit = "exit1")
  /\ [][(written # <<>>) => (written' = written)]_vars

\* C12 witness: a run has resolved with its one record written
C12_Witness_RecordWrittenOnce ==
  /\ pc = "end"
  /\ exit = "resolved"
  /\ Len(written) = 1
  /\ gate = "LOADED"

(* ========================= claims on parseCourseArg =================== *)

\* raw is a subject of i tokens of [A-Z_]+, then whitespace up to token j,
\* then something
SubjectThenSpace(raw, i, j) ==
  /\ 1 <= i /\ i < j /\ j < Len(raw)
  /\ \A k \in 1..i : raw[k] \in UpperWords
  /\ \A k \in (i + 1)..j : raw[k] \in WS

\* n is NUMBER: digits only
PlainNumber(n) == n # <<>> /\ \A k \in 1..Len(n) : n[k] \in Digits

\* n is NUMBER-SUFFIX: digits, "-", then letters and digits
SuffixedNumber(n) ==
  \E d \in 1..Len(n) :
    /\ d + 2 <= Len(n)
    /\ \A k \in 1..d : n[k] \in Digits
    /\ n[d + 1] = "-"
    /\ \A k \in (d + 2)..Len(n) : n[k] \in UpperAlnum

\* C13: a well-formed SUBJECT NUMBER parses to NUMBER-0, a well-formed
\* SUBJECT NUMBER-SUFFIX to the number unchanged; the parsed number always
\* holds a "-" followed by a suffix; parsing the parsed pair again gives the
\* same pair.
C13_DefaultSuffixAndIdempotence ==
  /\ [](pc \in {"p_done", "p_threw"} =>
          \A i, j \in 1..Len(Trim(argv)) :
            LET raw == Trim(argv)
                n == SubSeq(raw, j + 1, Len(raw))
            IN  /\ (SubjectThenSpace(raw, i, j) /\ PlainNumber(n)) =>
                     /\ pc = "p_done"
                     /\ subject = SubSeq(raw, 1, i)
                     /\ number = n \o <<"-", "0">>
                /\ (SubjectThenSpace(raw, i, j) /\ SuffixedNumber(n)) =>
                     /\ pc = "p_done"
                     /\ subject = SubSeq(raw, 1, i)
                     /\ number = n)
  /\ [](pc \in {"p_done", "p_again"} => SuffixedNumber(number))
  /\ [][(pc = "p_done") =>
          (pc' = "p_again" /\ subject' = subject /\ number' = number)]_vars

\* C13 witness: "COMP_SCI 21" was parsed to 21-0 and the pair parsed again
C13_Witness_DefaultedPairReparsed ==
  /\ pc = "p_again"
  /\ argv = <<"COMP_SCI", " ", "2", "1", "-", "0">>
  /\ subject = <<"COMP_SCI">>
  /\ number = <<"2", "1", "-", "0">>

(* ==================== further claims on main() ======================== *)

\* the command line is SUBJECT NUMBER or SUBJECT NUMBER-SUFFIX
WellFormedInput(joined) ==
  LET raw == Trim(joined)
  IN  \E i, j \in 1..Len(raw) :
        /\ SubjectThenSpace(raw, i, j)
        /\ \/ PlainNumber(SubSeq(raw, j + 1, Len(raw)))
           \/ SuffixedNumber(SubSeq(raw, j + 1, Len(raw)))

\* C14: a missing or malformed course identifier ends main() with
\* InputError, and a run that threw InputError has launched no context,
\* opened no page, called the browser never, and ends with exit code 1.
C14_InputErrorBeforeAnyBrowserCall ==
  /\ (pc \notin {"module", "parse"} /\ apiKey # "unset" /\ ~WellFormedInput(argv))
       => err = "InputError"
  /\ err = "InputError" =>
       /\ pc \in {"catch", "end"}
       /\ ctx = "none" /\ ~opAfterClose
       /\ frames = <<>> /\ evalPage = "none" /\ page = NoPage
       /\ written = <<>>
       /\ pc = "end" => exit = "exit1"

\* C14 witness: the lower-case "comp_sci 212" ended the run with InputError
\* and no context
C14_Witness_MalformedInputRejected ==
  /\ pc = "end"
  /\ argv = <<"comp_sci", " ", "2", "1", "2">>
  /\ err = "InputError"
  /\ exit = "exit1"
  /\ ctx = "none"

\* C15 (as claimed): with OPENAI_API_KEY unset the run goes through the
\* whole pipeline, the summary is skipped, and when the site lets it the run
\* resolves with the record written, its summary null.
C15_MissingKeyIsNotAnError ==
  apiKey = "unset" =>
    /\ err # "OpenAIError"
    /\ (pc = "end" /\ err = "none") =>
         (exit = "resolved" /\ Len(written) = 1 /\ written[1].summary = "null")

\* the run met no failure of the browser, of the search form or of the
\* module load, none of which the example speaks of
NothingAroundFailed == err \notin {"Error", "NoMatchingOption", "OpenAIError"}

\* the example's run: none of the failures of the parse, of the course row
\* scan and of the evaluation row picker; nothing thrown once the report is
\* loaded; the run resolved with one record, for COMP_SCI 212-0 and the
\* region "Great class"
ScenarioRunSucceeds ==
  /\ err \notin {"InputError", "CourseNotFound", "NoEvaluationRow"}
  /\ gate = "LOADED" => err = "none"
  /\ (pc = "end" /\ NothingAroundFailed) =>
       /\ exit = "resolved"
       /\ Len(written) = 1
       /\ written[1].courseInput =
            [subject |-> <<"COMP_SCI">>, number |-> <<"2", "1", "2", "-", "0">>]
       /\ written[1].essayChunk = Str(<<"Great class">>)

\* the evaluation row of the record written has `field` hold the description
\* and term hold the term
ScenarioRowUnder(field) ==
  (pc = "end" /\ NothingAroundFailed) =>
    /\ written # <<>>
    /\ DOMAIN written[1].evaluationRow = {"term", field}
    /\ written[1].evaluationRow["term"] = Str(<<"2", "0", "2", "3", " ", "Fall">>)
    /\ written[1].evaluationRow[field] = Str(<<"(J. Smith)">>)

GatePolls ==
  /\ pc \in {"gate1", "gate2"}
  /\ page' = page
  /\ popupOpened' = popupOpened

\* the text sampled holds a report marker and a login marker, or holds a
\* report marker and was sampled at a login address
ReportAndLogin(s) == hasReport(s.text) /\ looksLikeLogin(s.text, s.url)

\* C18: a poll whose sample holds both a report marker and an interstitial
\* marker (or a login address) never moves the gate to AUTH_INTERSTITIAL
\* and prints no login prompt; in waitForReport it moves the gate to LOADED.
C18_ReportCheckedBeforeInterstitial ==
  /\ [](gate = "AUTH_INTERSTITIAL" => ~hasReport(sample.text))
  /\ [][(GatePolls /\ ReportAndLogin(sample')) =>
          /\ gate' # "AUTH_INTERSTITIAL"
          /\ gateLog' = gateLog
          /\ prompts' \in {0, prompts}
          /\ pc = "gate2" => (gate' = "LOADED" /\ pc' = "read")]_vars

\* C18 witness: waitForReport returned on a sample with both a report
\* marker and a login marker in its text
C18_Witness_LoadedOnReportWithLoginMarker ==
  /\ pc = "read"
  /\ gate = "LOADED"
  /\ sample.text = <<"Responses Received", " ", "Duo">>
  /\ gateLog = "none"

\* C19 (as claimed): over consecutive polls that all observe the login
\* screen the login prompt is printed exactly once, not once per poll.
C19_LoginPromptOncePerEntry ==
  /\ prompts <= 1
  /\ (pc = "gate2" /\ gate = "AUTH_INTERSTITIAL" /\ gateLog = "login") => prompts = 1

\* C20 (as claimed): the popup listener is armed when the click is issued;
\* the gate samples only once evalPage is known and has reached
\* DOM-content-loaded; and whenever the click has opened a new window, the
\* gate and the extractor read that window, not the original page.
C20_GateReadsThePopupWheneverOneOpens ==
  /\ pc = "popup" => popupArmed
  /\ (pc \in {"gate1", "gate2", "read"} \/ sample # NoPage) => evalPage # "none"
  /\ (popupOpened /\ pc \in {"gate1", "gate2", "read", "extract"}) => evalPage = "popup"

(* ============== claims on what the pipeline reads and reports ========== *)

\* the text of the page has been read for the extractor
TextRead == pc \in {"extract", "summarize", "write"} \/ written # <<>>

\* C21 (as claimed): in every run the text handed to
\* extractEssayToDemographics holds a report-presence marker, also when the
\* page changes between the last poll of the gate and the read.
C21_ExtractedTextHoldsReportMarker ==
  TextRead => (gate = "LOADED" /\ hasReport(fullText))

\* the sample shows neither a report-presence marker nor a login marker
Pending(s) == ~hasReport(s.text) /\ ~looksLikeLogin(s.text, s.url)

\* C26 (as claimed): on every poll of the gate whose sample shows neither a
\* report nor the login screen the "waiting" notice is printed, before the
\* first report or login screen was seen as well as after.
C26_WaitingNoticeOnEveryPendingPoll ==
  (pc \in {"gate1", "gate2"} /\ sample # NoPage /\ Pending(sample)) =>
    gateLog = "waiting"

\* t is four digits, one space and a season abbreviation, in any case
StrictTerm(t) ==
  /\ Len(t) = 6
  /\ \A k \in 1..4 : t[k] \in Digits
  /\ t[5] = " "
  /\ LowerTok(t[6]) \in Seasons

\* C28: the term and the description kept for the record are the normalized
\* first and second cell of the row whose link is clicked, a row of at least
\* two td cells whose term is four digits, a space and a season; they do not
\* change afterwards; the record's evaluationRow holds them, so that a
\* header, filter or pagination row is never reported.
C28_RecordedRowIsTheClickedTermRow ==
  /\ [](/\ clickedEval # 0 =>
             /\ clickedEval = realEvalLink
             /\ clickedEval \in 1..Len(evalLinks)
             /\ evalLinks[clickedEval].hasRow
             /\ Len(evalLinks[clickedEval].cells) >= 2
             /\ realRowTerm = Str(norm(evalLinks[clickedEval].cells[1]))
             /\ realRowDesc = Str(norm(evalLinks[clickedEval].cells[2]))
        /\ ~realRowTerm.null => (StrictTerm(realRowTerm.str) /\ ~realRowDesc.null)
        /\ written # <<>> =>
             /\ written[1].evaluationRow = [term |-> realRowTerm, desc |-> realRowDesc]
             /\ StrictTerm(written[1].evaluationRow.term.str)
             /\ ~written[1].evaluationRow.desc.null)
  /\ [][(~realRowTerm.null) =>
          (realRowTerm' = realRowTerm /\ realRowDesc' = realRowDesc)]_vars
  /\ [][(clickedEval' # clickedEval /\ clickedEval' # 0) =>
          (clickedEval = 0 /\ clickedEval' = realEvalLink /\ evalLinks' = evalLinks)]_vars

\* C28 witness: a record was written whose row was picked after a header
\* row was passed over
C28_Witness_RecordOfSecondRow ==
  /\ written # <<>>
  /\ written[1].evaluationRow.term = Str(<<"2", "0", "2", "5", " ", "sprng">>)
  /\ written[1].evaluationRow.desc = Str(<<"(A.", " ", "Lee)">>)

\* the summarization call has thrown: the one throw that follows the gate
SummarizerThrew == err = "Error" /\ gate = "LOADED"

\* C29: when the summarization call throws after the gate returned and the
\* extractor ran, no record is written, the run unwinds through finally,
\* where the context is closed, to main().catch, and ends with exit code 1.
C29_SummarizerThrowFailsTheRun ==
  /\ [](SummarizerThrew =>
          /\ hasReport(sample.text)
          /\ essayChunk = extractEssayToDemographics(fullText)
          /\ written = <<>>
          /\ Unwinding
          /\ pc \in {"catch", "end"} => ctx = "closed"
          /\ pc = "end" => exit = "exit1"
          /\ exit \in {"running", "exit1"})
  /\ [][(pc = "summarize" /\ pc' # "write") =>
          (err' = "Error" /\ pc' = "finally" /\ ctx' = ctx /\ written' = <<>>)]_vars
  /\ [][SummarizerThrew => (SummarizerThrew' /\ written' = <<>>)]_vars

\* C29 witness: a run whose summarization call threw has ended with exit
\* code 1, its context closed and no record
C29_Witness_FailedAfterExtraction ==
  /\ pc = "end"
  /\ SummarizerThrew
  /\ exit = "exit1"
  /\ ctx = "closed"
  /\ Truthy(essayChunk)
  /\ written = <<>>

\* C24 (as claimed): NoMatchingOption is never due to timing: when the run
\* has failed with NoMatchingOption, no option the site renders in that
\* select element afterwards satisfies the predicate.
C24_NoMatchingOptionOnlyForARealMismatch ==
  err = "NoMatchingOption" =>
    \A i \in 1..Len(lateOptions) :
      ~matcherFn(MatcherOf(LastSelect), norm(lateOptions[i].label))

(* ================== claims on the order of the steps =================== *)

\* the positions of main() inside the try block, in the order of the source
PipelineSteps ==
  <<"goto", "frame", "career", "subjwait", "subject", "search", "results",
    "evalwait", "arm", "click", "popup", "load", "gate1", "gate2", "read",
    "extract", "summarize", "write">>

\* the place of a position in that order, 0 outside the try block
StepRank(p) ==
  IF \E k \in 1..Len(PipelineSteps) : PipelineSteps[k] = p
    THEN CHOOSE k \in 1..Len(PipelineSteps) : PipelineSteps[k] = p
    ELSE 0

\* main() is at step `a` or at a later step of the try block
AtOrAfter(a) == StepRank(pc) >= StepRank(a) /\ StepRank(pc) > 0

\* main() is inside the try block and has not gone beyond step `a`
UpTo(a) == StepRank(pc) > 0 /\ StepRank(pc) <= StepRank(a)

\* C23: the steps run one after another in the order of the claim: main()
\* is at one step at a time and leaves it only for the next one or, on a
\* throw, for the finally block; at each step the result of the step before
\* is there (frame, career, more than one subject option, subject, result
\* link and clicked row, evaluation link, click, gate LOADED, extracted
\* text), and nothing of a later step is there before its turn.
C23_StepsRunOneAfterAnotherInOrder ==
  /\ [][(StepRank(pc) > 0 /\ pc' # pc) =>
          \/ StepRank(pc') = StepRank(pc) + 1
          \/ pc' = "finally" /\ (err' # "none" \/ pc = "write")]_vars
  /\ [][(pc = "results" /\ pc' = "evalwait") =>
          (Len(courseLinks) >= 1 /\ clickedCourse' \in 1..Len(courseLinks))]_vars
  /\ [][(pc = "evalwait" /\ pc' = "arm") =>
          (Len(evalLinks) >= 1 /\ realEvalLink' \in 1..Len(evalLinks))]_vars
  /\ [](/\ pc = "career" => (frame \in 1..Len(frames) /\ frames[frame])
        /\ pc \in {"subjwait", "subject"} => selected["career"] # NoValue
        /\ pc = "subject" => Len(options["subject"]) > 1
        /\ pc = "search" => selected["subject"] # NoValue
        /\ pc \in {"arm", "click"} => realEvalLink \in 1..Len(evalLinks)
        /\ pc \in {"popup", "load"} => clickedEval = realEvalLink /\ clickedEval # 0
        /\ pc \in {"gate1", "gate2"} => evalPage # "none"
        /\ AtOrAfter("read") => gate = "LOADED"
        /\ AtOrAfter("summarize") => essayChunk = extractEssayToDemographics(fullText)
        /\ UpTo("frame") => frame = 0
        /\ UpTo("career") => selected["career"] = NoValue
        /\ UpTo("subject") => selected["subject"] = NoValue
        /\ UpTo("search") => courseLinks = <<>>
        /\ UpTo("results") => (clickedCourse = 0 /\ evalLinks = <<>>)
        /\ UpTo("evalwait") => realEvalLink = 0
        /\ UpTo("click") => clickedEval = 0
        /\ UpTo("popup") => evalPage = "none"
        /\ UpTo("load") => sample = NoPage
        /\ UpTo("gate2") => gate # "LOADED"
        /\ UpTo("read") => fullText = <<>>
        /\ UpTo("extract") => essayChunk = Null
        /\ UpTo("write") => written = <<>>)

\* C23 witness: every step was taken in turn and the record was written,
\* the subject select element having been populated in full before
C23_Witness_AllStepsInTurn ==
  /\ pc = "finally"
  /\ err = "none"
  /\ Len(written) = 1
  /\ gate = "LOADED"
  /\ ~realRowTerm.null

\* the positions at which main() waits for the site or for the operator
WaitPoints ==
  {"frame", "career", "subjwait", "subject", "results", "evalwait", "gate1", "gate2"}

\* C25: no wait has a timeout exit: while main() waits nothing has been
\* thrown and the context is open, a poll that does not observe the awaited
\* condition leaves the run where it is, and each wait is left only with its
\* condition observed: a frame holding the selector, the select element
\* visible, more than one subject option, a result link, an evaluation link,
\* a report or login marker (first gate), a report marker (second gate).
C25_WaitsAreLeftOnlyOnTheirCondition ==
  /\ [](pc \in WaitPoints => (err = "none" /\ exit = "running" /\ ctx = "open"))
  /\ [][(pc \in WaitPoints /\ pc' # pc) =>
          /\ pc = "frame" =>
               (pc' = "career" /\ frame' \in 1..Len(frames) /\ frames[frame'])
          /\ pc = "career" => visible["career"]
          /\ pc = "subjwait" =>
               (pc' = "subject" /\ Len(options["subject"]) > 1 /\ err' = "none")
          /\ pc = "subject" => visible["subject"]
          /\ pc = "results" => Len(courseLinks) >= 1
          /\ pc = "evalwait" => Len(evalLinks) >= 1
          /\ pc = "gate1" =>
               /\ pc' = "gate2" /\ err' = "none"
               /\ hasReport(sample'.text) \/ looksLikeLogin(sample'.text, sample'.url)
          /\ pc = "gate2" =>
               (pc' = "read" /\ err' = "none" /\ hasReport(sample'.text))]_vars
  /\ [][(pc \in WaitPoints /\ pc' = pc) => (err' = "none" /\ exit' = "running")]_vars

\* C25 witness: the gate has polled the login screen as often as the bound
\* allows and the run is still waiting, nothing thrown
C25_Witness_StillWaitingAfterManyPolls ==
  /\ pc = "gate2"
  /\ prompts = MaxPrompts
  /\ gate = "AUTH_INTERSTITIAL"
  /\ err = "none"

(* ===================== claims on fair polling ========================== *)

\* C22: when the text of the evaluation page comes to hold a report-presence
\* marker and keeps holding one, the gate, wherever it is waiting, pending
\* or on the login screen and after any number of login polls, reaches
\* LOADED and returns to main().
C22_GateReturnsOnceTheReportStays ==
  (<>[]hasReport(page.text)) =>
    [](pc \in {"gate1", "gate2"} => <>(pc = "read" /\ gate = "LOADED"))

\* C22 witness: the gate has returned on a report after a poll of
\* waitForReport that saw neither a report nor the login screen
C22_Witness_LoadedAfterPendingPoll ==
  /\ pc = "read"
  /\ gate = "LOADED"
  /\ gateLog = "waiting"
  /\ page = sample

\* some frame of the page holds the selector
SelectorSomewhere == \E i \in 1..Len(frames) : frames[i]

\* C27: every tick reads the frames of the page again; when from some point
\* on some frame holds the selector at every tick, a frame attached after
\* the first tick or another frame than before included, the resolver
\* returns, and the frame it returns holds the selector.
C27_ResolverReturnsOnceTheSelectorStays ==
  /\ [][(pc = "frame" /\ scanned' # scanned) => (scanned' = Len(frames))]_vars
  /\ (<>[](pc = "frame" => SelectorSomewhere)) =>
       [](pc = "frame" =>
            <>(pc = "career" /\ frame \in 1..Len(frames) /\ frames[frame]))

\* C27 witness: the resolver returned the second frame, attached after the
\* page was opened, the first frame not holding the selector
C27_Witness_ReturnedTheLaterFrame ==
  /\ pc = "career"
  /\ Len(frames) = 2
  /\ frame = 2
  /\ ~frames[1]

====
